---- MODULE Spec2Model ----
(***************************************************************************)
(* Model of edgelet-test-utils/src/web/mod.rs: the four test servers       *)
(* run_tcp_server, run_tls_tcp_server, run_tls_tcp_server_with_mutual_auth *)
(* and run_uds_server.                                                     *)
(*                                                                         *)
(* A behaviour fixes one transport (kind) and one executor, lets the test  *)
(* call the setup function for up to MaxServers servers on the same        *)
(* address or path, and lets up to MaxClients clients connect.             *)
(***************************************************************************)
EXTENDS Integers, Sequences, FiniteSets, TLC

\* ---------------------------------------------------------------- bounds
MaxServers == 2
MaxClients == 2
MaxReq == 2

Servers == 1..MaxServers
Clients == 1..MaxClients

\* ------------------------------------------------------------- constants
Kinds == {"tcp", "tls", "mtls", "uds"}
HyperKinds == {"tcp", "uds"}
TlsKinds == {"tls", "mtls"}

\* the executor that drives the Server Task and receives tokio::spawn:
\* the thread pool catches a panicking task, current_thread unwinds.
Executors == {"threadpool", "current_thread"}

\* mutant: another text is written
OkLineOther == "200 ok"

\* the text run_tls_tcp_server writes
OkLine == "HTTP/1.1 200 OK"

\* endpoint values: the address or path is free, or is held by something
\* the servers of this behaviour did not create, or names server s.
Free == 0
Foreign == 0 - 1

\* certificates: 1 is a CA, 2 the server's leaf issued by 1, 3 a client
\* certificate issued by 1, 4 an unrelated self-signed certificate, 5 a
\* client certificate issued by 1 that has expired.
NoCert == 0
Certs == 1..5
Issuer == [c \in Certs |-> IF c = 4 THEN 4 ELSE 1]
Expired == {5}
ServerChains == {{1, 2}, {4}}
ClientCerts == {NoCert, 3, 4, 5}

\* the requests a client may send, and the caller-supplied handlers
\* (request -> response) a test may pass to the setup function
Requests == {"GET /a", "GET /b"}
Handlers == {[r \in Requests |-> "200 ok"],
             [r \in Requests |-> IF r = "GET /a" THEN "200 a" ELSE "404"]}

VARIABLES
    kind,        \* which of the four setup functions the test uses
    executor,    \* which executor drives the tasks
    endpoint,    \* what the address / socket path currently names
    task,        \* per server: the Server Task value
    listener,    \* per server: the listening socket
    runtimeUp,   \* per server: the executor holding its spawned tasks runs
    backlog,     \* per server: connections the OS completed, not accepted
    cur,         \* per server: the connection for_each is driving inline
    handler,     \* the handler the test passes to the setup function
    trustStore,  \* per server: client_auth_roots
    fault,       \* per server: the gravest error raised while running
    conn,        \* per client: its connection
    inbox,       \* per client: requests sent and not yet read
    outbox,      \* per client: what the server wrote to it
    served,      \* per client: the requests the server read from it
    setupErr,    \* per server: the step of setup that failed, if any
    setupIn,     \* per server: what its setup call was given and met
    requests     \* per connection: the requests the client sent, in order

vars == <<kind, executor, endpoint, task, listener, runtimeUp, backlog, cur,
          handler, trustStore, fault, conn, inbox, outbox, served, setupErr,
          setupIn, requests>>

LiveTask == {"held", "running"}

\* a setup call not made yet: no certificate chain given, remove_file not
\* called, no OS error met, no live listener found at the path
NoSetup == [chain |-> {}, remove |-> "none", os |-> FALSE, live |-> FALSE]

NoConn == [st |-> "idle", srv |-> 0, hs |-> "none", cert |-> NoCert,
           trusts |-> TRUE, early |-> FALSE]

Init ==
    /\ kind \in Kinds
    /\ executor \in Executors
    /\ endpoint \in {Free, Foreign}
    /\ task = [s \in Servers |-> "none"]
    /\ listener = [s \in Servers |-> "none"]
    /\ runtimeUp = [s \in Servers |-> TRUE]
    /\ backlog = [s \in Servers |-> <<>>]
    /\ cur = [s \in Servers |-> 0]
    /\ handler \in (IF kind \in HyperKinds THEN Handlers
                    ELSE {CHOOSE h \in Handlers : TRUE})
    /\ trustStore = [s \in Servers |-> {}]
    /\ fault = [s \in Servers |-> "none"]
    /\ conn = [c \in Clients |-> NoConn]
    /\ inbox = [c \in Clients |-> <<>>]
    /\ outbox = [c \in Clients |-> <<>>]
    /\ served = [c \in Clients |-> <<>>]
    /\ setupErr = [s \in Servers |-> "none"]
    /\ setupIn = [s \in Servers |-> NoSetup]
    /\ requests = [c \in Clients |-> <<>>]

\* ------------------------------------------------------------- helpers

\* the server whose setup function was called last
Latest == IF \A s \in Servers : task[s] = "none" THEN 0
          ELSE CHOOSE s \in Servers :
                   /\ task[s] # "none"
                   /\ \A t \in Servers : task[t] # "none" => t <= s

\* errors raised while a server runs: none, on one connection ("conn"), or
\* by the listener ("accept"); fault keeps the gravest
Graver(old, new) ==
    IF old = "accept" \/ new = "accept" THEN "accept" ELSE new

\* a task that panics: the thread pool catches the panic and drops that
\* task alone, current_thread unwinds through the executor.
Contained == executor = "threadpool"

\* the Server Task of s ends with `status`: the future is dropped, and with
\* it the listener and the connection for_each was driving; connections
\* still in the listener's queue are reset. cn is conn after the step's
\* own change, up says whether the executor of s keeps running.
EndTask(s, status, up, cn) ==
    /\ task' = [task EXCEPT ![s] = status]
    /\ listener' = [listener EXCEPT ![s] = "closed"]
    /\ endpoint' = IF kind # "uds" /\ endpoint = s THEN Free ELSE endpoint
    /\ backlog' = [backlog EXCEPT ![s] = <<>>]
    /\ cur' = [cur EXCEPT ![s] = 0]
    /\ runtimeUp' = [runtimeUp EXCEPT ![s] = up]
    /\ conn' = [c \in Clients |->
                  IF cn[c].srv = s /\ cn[c].st \in {"queued", "connecting", "serving"}
                  THEN [cn[c] EXCEPT !.st = "Closed"]
                  ELSE cn[c]]

\* a spawned task of server s panics
SpawnedPanic(s, cn) ==
    IF Contained \/ task[s] \notin LiveTask
    THEN /\ conn' = cn
         /\ runtimeUp' = [runtimeUp EXCEPT ![s] = Contained]
         /\ UNCHANGED <<task, listener, endpoint, backlog, cur>>
    ELSE EndTask(s, "panicked", FALSE, cn)

\* ------------------------------------------------------------- setup

\* the listener a connect to the address or path reaches
Reachable == endpoint \in Servers /\ listener[endpoint] = "bound"

\* mutant: the socket file of an earlier server is left in place
AfterRemoveKept(removeOk) == endpoint

\* fs::remove_file(&path).unwrap_or(()): what the path names afterwards
AfterRemove(removeOk) ==
    IF kind = "uds" /\ removeOk THEN Free ELSE endpoint

\* the bind call: the address parsed, the address or path is free, and the
\* OS raised no other error
BindSucceeds(addrOk, removeOk, bindOk) ==
    addrOk /\ bindOk /\ AfterRemove(removeOk) = Free

\* the first step of setup that fails: parsing the address, the bind, or
\* what follows the bind (building the TLS acceptor, parsing the
\* certificates and filling the root store, registering the UDS listener)
FailedStep(addrOk, bound, lateOk) ==
    IF ~addrOk THEN "parse"
    ELSE IF ~bound THEN "bind"
    ELSE IF ~lateOk THEN "late"
    ELSE "none"

\* mutant: a failure after the bind is dropped instead of unwrapped
SetupOutcomeLenient(bound, lateOk) ==
    IF bound THEN "held" ELSE "aborted"

\* every fallible step of setup is unwrapped (or returned with ?): the
\* caller gets a Server Task only if all of them succeeded
SetupOutcome(bound, lateOk) ==
    IF bound /\ lateOk THEN "held" ELSE "aborted"

\* mutant: the bind is put off until the Server Task is first polled
SetupListenerLazy(bound, lateOk) == "none"

\* the listener the returned Server Task owns
SetupListener(bound, lateOk) ==
    IF bound /\ lateOk THEN "bound" ELSE "none"

\* mutant: a path a running server is bound to is left to that server
SetupEndpointStale(s, addrOk, removeOk, bound, lateOk) ==
    IF endpoint \in Servers THEN endpoint
    ELSE IF bound THEN s
    ELSE endpoint

\* what the address or path names when setup is over
SetupEndpoint(s, addrOk, removeOk, bound, lateOk) ==
    IF ~addrOk THEN endpoint
    ELSE IF ~bound THEN AfterRemove(removeOk)
    ELSE IF lateOk \/ kind = "uds" THEN s
    ELSE Free

\* mutant: only the first certificate of the chain is added
BuildTrustStoreLeafOnly(chain) ==
    IF kind = "mtls"
    THEN {x \in chain : \A y \in chain : x <= y}
    ELSE {}

\* client_auth_roots: every certificate of the server's chain is added
BuildTrustStore(chain) ==
    IF kind = "mtls" THEN chain ELSE {}

\* the result of fs::remove_file(&path): the file was removed, there was
\* none (NotFound), or the removal failed and the file is still there
RemoveResult(removeOk) ==
    IF kind # "uds" THEN "none"
    ELSE IF endpoint = Free THEN "absent"
    ELSE IF removeOk THEN "ok"
    ELSE "error"

\* mutant: remove_file(&path).unwrap(): any removal error aborts setup
RemoveAbortsUnwrapped(res) == res \in {"absent", "error"}

\* unwrap_or(()): whatever remove_file returns is discarded
RemoveAborts(res) == FALSE

\* an error of the operating system other than "address in use" was met
\* by a step of setup that was reached
OsError(addrOk, removeOk, bindOk, lateOk) ==
    \/ ~addrOk
    \/ ~bindOk
    \/ BindSucceeds(addrOk, removeOk, bindOk) /\ ~lateOk

Setup(s) ==
    /\ task[s] = "none"
    /\ IF s = 1 THEN TRUE ELSE task[s - 1] # "none"
    /\ \E addrOk \in (IF kind = "uds" THEN {TRUE} ELSE BOOLEAN),
          removeOk \in (IF kind = "uds" /\ endpoint # Free THEN BOOLEAN ELSE {TRUE}),
          bindOk \in BOOLEAN,
          lateOk \in (IF kind = "tcp" THEN {TRUE} ELSE BOOLEAN),
          chain \in (IF kind = "mtls" THEN ServerChains ELSE {{}}) :
        LET res   == RemoveResult(removeOk)
            bound == BindSucceeds(addrOk, removeOk, bindOk)
            got   == SetupOutcome(bound, lateOk)
        IN /\ setupIn' = [setupIn EXCEPT ![s] =
                             [chain |-> chain, remove |-> res,
                              os |-> OsError(addrOk, removeOk, bindOk, lateOk),
                              live |-> Reachable]]
           /\ IF RemoveAborts(res)
              THEN /\ task' = [task EXCEPT ![s] = "aborted"]
                   /\ setupErr' = [setupErr EXCEPT ![s] = "remove"]
                   /\ endpoint' = AfterRemove(removeOk)
                   /\ UNCHANGED <<listener, trustStore>>
              ELSE /\ task' = [task EXCEPT ![s] = got]
                   /\ setupErr' = [setupErr EXCEPT ![s] =
                                      FailedStep(addrOk, bound, lateOk)]
                   /\ listener' = [listener EXCEPT ![s] =
                                      SetupListener(bound, lateOk)]
                   /\ endpoint' = SetupEndpoint(s, addrOk, removeOk, bound, lateOk)
                   /\ trustStore' = [trustStore EXCEPT ![s] =
                                        IF got = "held" THEN BuildTrustStore(chain)
                                        ELSE @]
    /\ UNCHANGED <<kind, executor, runtimeUp, backlog, cur, handler, fault,
                   conn, inbox, outbox, served, requests>>

\* ------------------------------------------------------------- clients

\* the attempt is made after the latest setup call returned a Server Task
\* and before that task was polled
EarlyAttempt == Latest # 0 /\ task[Latest] = "held"

\* clients are interchangeable: they make their attempts in index order
Connect(c) ==
    /\ conn[c].st = "idle"
    /\ IF c = 1 THEN TRUE ELSE conn[c - 1].st # "idle"
    /\ \E crt \in (IF kind = "mtls" THEN ClientCerts ELSE {NoCert}),
          tr \in (IF kind = "tls" THEN BOOLEAN ELSE {TRUE}) :
        IF Reachable
        THEN /\ conn' = [conn EXCEPT ![c] =
                            [st |-> "queued", srv |-> endpoint, hs |-> "none",
                             cert |-> crt, trusts |-> tr, early |-> EarlyAttempt]]
             /\ backlog' = [backlog EXCEPT ![endpoint] = Append(@, c)]
        ELSE /\ conn' = [conn EXCEPT ![c] =
                            [NoConn EXCEPT !.st = "refused", !.early = EarlyAttempt]]
             /\ UNCHANGED backlog
    /\ UNCHANGED <<kind, executor, setupErr, endpoint, task, listener,
                   runtimeUp, cur, handler, trustStore, fault, inbox, outbox,
                   served, setupIn,
                   requests>>

\* requests the client has put on the connection so far
Sent(c) == Len(inbox[c]) + Len(served[c])

\* how many requests a client may put on one connection: the TLS servers
\* never read, so there one unread request stands for any number
ReqLimit == IF kind \in HyperKinds THEN MaxReq ELSE 1

SendRequest(c, r) ==
    /\ \/ kind \in HyperKinds /\ conn[c].st \in {"queued", "connecting", "serving"}
       \/ kind \in TlsKinds /\ conn[c].st \in {"Established", "Dispatching"}
    /\ Sent(c) < ReqLimit
    /\ inbox' = [inbox EXCEPT ![c] = Append(@, r)]
    /\ requests' = [requests EXCEPT ![c] = Append(@, r)]
    /\ UNCHANGED <<kind, executor, setupErr, endpoint, task, listener,
                   runtimeUp, backlog, cur, handler, trustStore, fault, conn,
                   outbox, served, setupIn>>

\* ------------------------------------------ the Server Task, all kinds

\* the executor polls the Server Task for the first time and nothing has
\* arrived yet
PollIdle(s) ==
    /\ task[s] = "held"
    /\ runtimeUp[s]
    /\ task' = [task EXCEPT ![s] = "running"]
    /\ UNCHANGED <<kind, executor, setupErr, endpoint, listener, runtimeUp,
                   backlog, cur, handler, trustStore, fault, conn, inbox,
                   outbox, served, setupIn,
                   requests>>

\* the caller drops the Server Task
Cancel(s) ==
    /\ task[s] \in LiveTask
    /\ EndTask(s, "cancelled", runtimeUp[s], conn)
    /\ UNCHANGED <<kind, executor, setupErr, handler, trustStore, fault,
                   inbox, outbox, served, setupIn,
                   requests>>

\* mutant: the accept error is swallowed and the loop accepts again
AcceptErrorRetried == "running"

\* how the Server Task ends when the incoming stream yields Err: for_each
\* resolves to that error (tcp, uds), and the TLS servers map it to a panic
AcceptErrorStatus ==
    IF kind \in HyperKinds THEN "failed" ELSE "panicked"

AcceptError(s) ==
    /\ task[s] \in LiveTask
    /\ runtimeUp[s]
    /\ listener[s] = "bound"
    /\ kind \in HyperKinds => cur[s] = 0
    /\ fault' = [fault EXCEPT ![s] = Graver(@, "accept")]
    /\ EndTask(s, AcceptErrorStatus,
               IF kind \in HyperKinds THEN runtimeUp[s] ELSE Contained, conn)
    /\ UNCHANGED <<kind, executor, setupErr, handler, trustStore, inbox,
                   outbox, served, setupIn,
                   requests>>

\* mutant: the stream yields the socket and keeps it queued as well
DequeuePeek(q) == q

\* the incoming stream yields each socket once: the closure of for_each
\* receives it by value and the listener's queue no longer holds it
Dequeue(q) == Tail(q)

\* ------------------------------ run_tcp_server and run_uds_server

\* for_each polls the stream for the next item only when the future of
\* the previous item has completed
AcceptReady(s) == cur[s] = 0

Accept(s) ==
    /\ kind \in HyperKinds
    /\ task[s] \in LiveTask
    /\ runtimeUp[s]
    /\ listener[s] = "bound"
    /\ AcceptReady(s)
    /\ backlog[s] # <<>>
    /\ LET c == Head(backlog[s])
       IN /\ cur' = [cur EXCEPT ![s] = c]
          /\ conn' = [conn EXCEPT ![c].st = "connecting"]
    /\ backlog' = [backlog EXCEPT ![s] = Dequeue(@)]
    /\ task' = [task EXCEPT ![s] = "running"]
    /\ UNCHANGED <<kind, executor, setupErr, endpoint, listener, runtimeUp,
                   handler, trustStore, fault, inbox, outbox, served,
                   setupIn,
                   requests>>

\* connecting resolves Ok: flatten goes on to drive the connection
ConnectingOk(s) ==
    /\ kind \in HyperKinds
    /\ task[s] = "running"
    /\ runtimeUp[s]
    /\ cur[s] # 0
    /\ conn[cur[s]].st = "connecting"
    /\ conn' = [conn EXCEPT ![cur[s]].st = "serving"]
    /\ UNCHANGED <<kind, executor, setupErr, endpoint, task, listener,
                   runtimeUp, backlog, cur, handler, trustStore, fault, inbox,
                   outbox, served, setupIn,
                   requests>>

\* connecting resolves Err: connection.unwrap() panics in the Server Task
ConnectingErr(s) ==
    /\ kind \in HyperKinds
    /\ task[s] = "running"
    /\ runtimeUp[s]
    /\ cur[s] # 0
    /\ conn[cur[s]].st = "connecting"
    /\ fault' = [fault EXCEPT ![s] = Graver(@, "conn")]
    /\ EndTask(s, "panicked", Contained, conn)
    /\ UNCHANGED <<kind, executor, setupErr, handler, trustStore, inbox,
                   outbox, served, setupIn,
                   requests>>

\* mutant: the connection answers the request that arrived last
NextRequestLast(q) == q[Len(q)]

\* hyper reads the requests of a connection in the order they arrived
NextRequest(q) == Head(q)

\* the connection reads the next request, calls the handler and writes
\* the response
ServeRequest(s) ==
    /\ kind \in HyperKinds
    /\ task[s] = "running"
    /\ runtimeUp[s]
    /\ cur[s] # 0
    /\ conn[cur[s]].st = "serving"
    /\ inbox[cur[s]] # <<>>
    /\ outbox' = [outbox EXCEPT ![cur[s]] = Append(@, handler[NextRequest(inbox[cur[s]])])]
    /\ inbox' = [inbox EXCEPT ![cur[s]] = Tail(@)]
    /\ served' = [served EXCEPT ![cur[s]] = Append(@, NextRequest(inbox[cur[s]]))]
    /\ UNCHANGED <<kind, executor, setupErr, endpoint, task, listener,
                   runtimeUp, backlog, cur, handler, trustStore, fault, conn,
                   setupIn,
                   requests>>

\* mutant: the stream is consumed with into_future: one item, then done
TaskAfterServedOnce == "done"

\* what for_each does when the future of an item resolves Ok(()): it goes
\* back to polling the stream
TaskAfterServed == "running"

\* the peer closes: the connection future resolves Ok(())
ServeDone(s) ==
    /\ kind \in HyperKinds
    /\ task[s] = "running"
    /\ runtimeUp[s]
    /\ cur[s] # 0
    /\ conn[cur[s]].st = "serving"
    /\ inbox[cur[s]] = <<>>
    /\ conn' = [conn EXCEPT ![cur[s]].st = "Closed"]
    /\ cur' = [cur EXCEPT ![s] = 0]
    /\ task' = [task EXCEPT ![s] = TaskAfterServed]
    /\ UNCHANGED <<kind, executor, setupErr, endpoint, listener, runtimeUp,
                   backlog, handler, trustStore, fault, inbox, outbox, served,
                   setupIn,
                   requests>>

\* the connection future resolves Err: for_each resolves to that error
ServeError(s) ==
    /\ kind \in HyperKinds
    /\ task[s] = "running"
    /\ runtimeUp[s]
    /\ cur[s] # 0
    /\ conn[cur[s]].st = "serving"
    /\ fault' = [fault EXCEPT ![s] = Graver(@, "conn")]
    /\ EndTask(s, "failed", runtimeUp[s], conn)
    /\ UNCHANGED <<kind, executor, setupErr, handler, trustStore, inbox,
                   outbox, served, setupIn,
                   requests>>

\* ------- run_tls_tcp_server and run_tls_tcp_server_with_mutual_auth

\* mutant: NoClientAuth: no client certificate is asked for
ClientVerifierNoAuth(crt, roots) == TRUE

\* AllowAnyAuthenticatedClient::new(client_auth_roots): the client must
\* present a certificate, valid and issued by one of the roots
ClientVerifier(crt, roots) ==
    /\ crt # NoCert
    /\ crt \notin Expired
    /\ Issuer[crt] \in roots

\* whether the handshake on c's connection can complete: the client accepts
\* the server's certificate and, with mutual auth, the server accepts the
\* client's
HandshakePasses(c) ==
    /\ conn[c].trusts
    /\ kind = "mtls" => ClientVerifier(conn[c].cert, trustStore[conn[c].srv])

\* mutant: then in place of and_then: the closure runs for Ok and for Err
WriteSpawnedAlways(hsOk) == TRUE

\* accept(socket).and_then(closure): the closure that builds and spawns the
\* write runs for a handshake that resolved Ok, and only for it
WriteSpawned(hsOk) == hsOk

\* the connections of server s whose spawned handshake or write is pending
Pending(s) ==
    {c \in Clients : /\ conn[c].srv = s
                     /\ conn[c].st \in {"Handshaking", "Established",
                                        "Dispatching"}}

\* mutant: the closure returns the handshake and write as its future, so
\* for_each waits for them before it polls the listener again
TlsAcceptReadyInline(s) == Pending(s) = {}

\* the closure of for_each returns Ok(()) right after tokio::spawn: the
\* listener is polled again whatever the spawned tasks are doing
TlsAcceptReady(s) == TRUE

\* for_each hands the socket to the closure, which spawns the handshake and
\* returns Ok(()) at once; the mutual-auth server first sets TCP_NODELAY
\* and unwraps the result
TlsAccept(s) ==
    /\ kind \in TlsKinds
    /\ task[s] \in LiveTask
    /\ runtimeUp[s]
    /\ TlsAcceptReady(s)
    /\ listener[s] = "bound"
    /\ backlog[s] # <<>>
    /\ \E nodelayOk \in (IF kind = "mtls" THEN BOOLEAN ELSE {TRUE}) :
        LET c == Head(backlog[s])
        IN IF nodelayOk
           THEN /\ conn' = [conn EXCEPT ![c].st = "Handshaking"]
                /\ backlog' = [backlog EXCEPT ![s] = Dequeue(@)]
                /\ task' = [task EXCEPT ![s] = "running"]
                /\ UNCHANGED <<endpoint, listener, runtimeUp, cur, fault>>
           ELSE /\ fault' = [fault EXCEPT ![s] = Graver(@, "conn")]
                /\ EndTask(s, "panicked", Contained, conn)
    /\ UNCHANGED <<kind, executor, setupErr, handler, trustStore, inbox,
                   outbox, served, setupIn,
                   requests>>

HandshakeOk(c) ==
    /\ kind \in TlsKinds
    /\ conn[c].st = "Handshaking"
    /\ runtimeUp[conn[c].srv]
    /\ HandshakePasses(c)
    /\ conn' = [conn EXCEPT ![c].hs = "ok",
                            ![c].st = IF WriteSpawned(TRUE) THEN "Established"
                                      ELSE "Closed"]
    /\ UNCHANGED <<kind, executor, setupErr, endpoint, task, listener,
                   runtimeUp, backlog, cur, handler, trustStore, fault, inbox,
                   outbox, served, setupIn,
                   requests>>

\* the handshake resolves Err: map_err panics in the spawned task
HandshakeFail(c) ==
    /\ kind \in TlsKinds
    /\ conn[c].st = "Handshaking"
    /\ runtimeUp[conn[c].srv]
    /\ IF WriteSpawned(FALSE)
       THEN /\ conn' = [conn EXCEPT ![c].hs = "failed", ![c].st = "Established"]
            /\ UNCHANGED <<endpoint, task, listener, runtimeUp, backlog, cur,
                           fault>>
       ELSE /\ fault' = [fault EXCEPT ![conn[c].srv] = Graver(@, "conn")]
            /\ SpawnedPanic(conn[c].srv,
                            [conn EXCEPT ![c].hs = "failed", ![c].st = "Rejected"])
    /\ UNCHANGED <<kind, executor, setupErr, handler, trustStore, inbox,
                   outbox, served, setupIn,
                   requests>>

\* the spawned write_all is polled for the first time
WriteBegin(c) ==
    /\ kind \in TlsKinds
    /\ conn[c].st = "Established"
    /\ runtimeUp[conn[c].srv]
    /\ conn' = [conn EXCEPT ![c].st = "Dispatching"]
    /\ UNCHANGED <<kind, executor, setupErr, endpoint, task, listener,
                   runtimeUp, backlog, cur, handler, trustStore, fault, inbox,
                   outbox, served, setupIn,
                   requests>>

\* mutant: the stream is kept and served again after the write
AfterWriteKeepAlive == "Established"

\* .map(|_| ()) drops the stream write_all gives back: the connection is
\* closed after the one write
AfterWrite == "Closed"

\* write_all resolves Ok: the text is on the stream, the stream is dropped
WriteFinish(c) ==
    /\ kind \in TlsKinds
    /\ conn[c].st = "Dispatching"
    /\ runtimeUp[conn[c].srv]
    /\ outbox' = [outbox EXCEPT ![c] = Append(@, OkLine)]
    /\ conn' = [conn EXCEPT ![c].st = AfterWrite]
    /\ UNCHANGED <<kind, executor, setupErr, endpoint, task, listener,
                   runtimeUp, backlog, cur, handler, trustStore, fault, inbox,
                   served, setupIn,
                   requests>>

\* write_all resolves Err: map_err panics in the spawned task
WriteError(c) ==
    /\ kind \in TlsKinds
    /\ conn[c].st = "Dispatching"
    /\ runtimeUp[conn[c].srv]
    /\ fault' = [fault EXCEPT ![conn[c].srv] = Graver(@, "conn")]
    /\ SpawnedPanic(conn[c].srv, [conn EXCEPT ![c].st = "Closed"])
    /\ UNCHANGED <<kind, executor, setupErr, handler, trustStore, inbox,
                   outbox, served, setupIn,
                   requests>>

\* ------------------------------------------------------------- the system

Next ==
    \/ \E s \in Servers : Setup(s)
    \/ \E s \in Servers : PollIdle(s)
    \/ \E s \in Servers : Cancel(s)
    \/ \E s \in Servers : AcceptError(s)
    \/ \E s \in Servers : Accept(s)
    \/ \E s \in Servers : ConnectingOk(s)
    \/ \E s \in Servers : ConnectingErr(s)
    \/ \E s \in Servers : ServeRequest(s)
    \/ \E s \in Servers : ServeDone(s)
    \/ \E s \in Servers : ServeError(s)
    \/ \E s \in Servers : TlsAccept(s)
    \/ \E c \in Clients : Connect(c)
    \/ \E c \in Clients, r \in Requests : SendRequest(c, r)
    \/ \E c \in Clients : HandshakeOk(c)
    \/ \E c \in Clients : HandshakeFail(c)
    \/ \E c \in Clients : WriteBegin(c)
    \/ \E c \in Clients : WriteFinish(c)
    \/ \E c \in Clients : WriteError(c)

Spec == Init /\ [][Next]_vars

\* ------------------------------------------------------------- claims

Ended == {"failed", "panicked"}

\* C1: a connect attempt made after the setup call returned a Server Task
\* and before that task was polled is never refused: the listener is bound
\* when the setup function returns.
C1_BindBeforeReturn ==
    \A c \in Clients : conn[c].early => conn[c].st # "refused"

\* C1 witness: a client is connected to a server whose task was never polled
C1_Witness ==
    \E c \in Clients :
        /\ conn[c].early
        /\ conn[c].st = "queued"
        /\ task[conn[c].srv] = "held"

\* C2: in run_tcp_server and run_uds_server, while a connection A is being
\* served and has not completed, a connection B that arrived later can be
\* accepted: acceptance does not wait for A.
C2_AcceptNotBlocked ==
    \A s \in Servers :
        ( /\ kind \in HyperKinds
          /\ task[s] = "running"
          /\ runtimeUp[s]
          /\ listener[s] = "bound"
          /\ cur[s] # 0
          /\ backlog[s] # <<>> )
        => ENABLED Accept(s)

\* C3: in run_tcp_server and run_uds_server a fault on one connection does
\* not end the Server Task: a server that has met connection-level faults
\* only has not failed and has not panicked.
C3_FaultIsolated ==
    \A s \in Servers :
        (kind \in HyperKinds /\ fault[s] = "conn") => task[s] \notin Ended

\* a step in which a handshake of the plain-TLS server fails leaves the
\* Server Task as it was and the executor running
HandshakeFailureContained ==
    kind = "tls" =>
        \A c \in Clients :
            (conn[c].st = "Handshaking" /\ conn'[c].st = "Rejected")
            => /\ task'[conn[c].srv] = task[conn[c].srv]
               /\ runtimeUp'[conn[c].srv]

\* C4: in run_tls_tcp_server a handshake failure drops that connection
\* only: it does not end the Server Task, and the executor that holds the
\* accept loop and the other connections' tasks keeps running.
C4_HandshakeFailureIsolated == [][HandshakeFailureContained]_vars

\* the steps a connection of a TLS server may take
TlsEdges ==
    { <<"idle", "queued">>, <<"idle", "refused">>,
      <<"queued", "Handshaking">>, <<"queued", "Closed">>,
      <<"Handshaking", "Established">>, <<"Handshaking", "Rejected">>,
      <<"Established", "Dispatching">>, <<"Dispatching", "Closed">> }

\* a step of a TLS server moves each connection along TlsEdges
TlsStepAllowed ==
    kind \in TlsKinds =>
        \A c \in Clients :
            conn'[c].st # conn[c].st => <<conn[c].st, conn'[c].st>> \in TlsEdges

\* the write is started only after a handshake that succeeded, and nothing
\* is written after one that failed
TlsWriteOnlyEstablished ==
    kind \in TlsKinds =>
        \A c \in Clients :
            /\ (conn[c].st \in {"Established", "Dispatching"} \/ outbox[c] # <<>>)
               => conn[c].hs = "ok"
            /\ conn[c].hs = "failed"
               => (conn[c].st = "Rejected" /\ outbox[c] = <<>>)

\* C5: in the TLS servers a connection moves only along accepted ->
\* Handshaking -> Established -> Dispatching -> Closed or Handshaking ->
\* Rejected; the write is started only on a connection whose handshake
\* succeeded, and nothing is written to one whose handshake failed.
C5_TlsStateMachine ==
    []TlsWriteOnlyEstablished /\ [][TlsStepAllowed]_vars

\* C5 witness: one connection is being written to after its handshake,
\* another was rejected with nothing written
C5_Witness ==
    /\ kind \in TlsKinds
    /\ \E c, d \in Clients :
        /\ conn[c].st = "Dispatching" /\ conn[c].hs = "ok"
        /\ conn[d].st = "Rejected" /\ outbox[d] = <<>>

\* C6: with mutual auth a handshake completes only for a client that
\* presented a valid certificate issued by a certificate of the trust
\* store; any other connection never reaches the write.
C6_MutualAuth ==
    kind = "mtls" =>
        \A c \in Clients :
            /\ conn[c].hs = "ok"
               => /\ conn[c].cert # NoCert
                  /\ conn[c].cert \notin Expired
                  /\ Issuer[conn[c].cert] \in trustStore[conn[c].srv]
            /\ conn[c].hs # "ok"
               => /\ conn[c].st \notin {"Established", "Dispatching"}
                  /\ outbox[c] = <<>>

\* C6 witness: a client with a certificate of the server's chain was
\* answered, a client with an unrelated self-signed one was rejected
C6_Witness ==
    /\ kind = "mtls"
    /\ \E c, d \in Clients :
        /\ conn[c].hs = "ok" /\ conn[c].cert = 3 /\ outbox[c] # <<>>
        /\ conn[d].st = "Rejected" /\ conn[d].cert = 4
        /\ conn[d].srv = conn[c].srv

\* on connection c every response written is the handler's response to the
\* request read at the same position
HandlerDispatched(c) ==
    /\ Len(outbox[c]) = Len(served[c])
    /\ \A k \in DOMAIN outbox[c] : outbox[c][k] = handler[served[c][k]]

C8_NeverCompletes ==
    \A s \in Servers :
        /\ task[s] # "done"
        /\ (task[s] \notin {"none", "aborted", "cancelled"} /\ fault[s] = "none")
           => /\ task[s] \in LiveTask
              /\ listener[s] = "bound"
              /\ runtimeUp[s]

\* C8 witness: every client was answered and its connection closed, and the
\* server is still running without a fault
C8_Witness ==
    /\ task[1] = "running"
    /\ fault[1] = "none"
    /\ \A c \in Clients :
        conn[c].srv = 1 /\ conn[c].st = "Closed" /\ outbox[c] # <<>>

C10_SetupAllOrNothing ==
    \A s \in Servers :
        /\ setupErr[s] # "none" => (task[s] = "aborted" /\ listener[s] = "none")
        /\ task[s] \in LiveTask => (setupErr[s] = "none" /\ listener[s] = "bound")

\* C10 witness: one setup was aborted by a failed bind while another
\* server's task is held
C10_Witness ==
    \E s, u \in Servers :
        /\ setupErr[s] = "bind" /\ task[s] = "aborted"
        /\ task[u] \in LiveTask

\* a setup call of server s was made and met no error of the operating
\* system, neither in remove_file nor in a later step
CleanSetup(s) ==
    /\ task[s] # "none"
    /\ ~setupIn[s].os
    /\ setupIn[s].remove # "error"

\* a step in which a client makes its connect attempt while the server
\* started last on the path is still live reaches that server
ReachesLatest ==
    kind = "uds" =>
        \A c \in Clients :
            ( /\ conn[c].st = "idle" /\ conn'[c].st # "idle"
              /\ Latest # 0 /\ task[Latest] \in LiveTask )
            => (conn'[c].st = "queued" /\ conn'[c].srv = Latest)

\* every start of a local-socket server that meets no OS error succeeds,
\* whatever an earlier server left at the path
UdsStartSucceeds ==
    kind = "uds" =>
        \A s \in Servers :
            CleanSetup(s)
            => /\ setupErr[s] = "none"
               /\ task[s] # "aborted"
               /\ setupIn[s].remove \in {"ok", "absent"}

\* C11: for start / cancel / start of a local-socket server on one path
\* every start succeeds: the socket file an earlier server left behind is
\* removed by the next run_uds_server before it binds, and clients that
\* connect after the later start reach the server started last.
C11_RestartSucceeds ==
    []UdsStartSucceeds /\ [][ReachesLatest]_vars

\* C11 witness: the first server was cancelled and left its socket file,
\* the second removed it and started, and a client that connected to the
\* first and one that connected after the restart reached their servers
C11_Witness ==
    /\ kind = "uds"
    /\ task[1] = "cancelled"
    /\ setupIn[2].remove = "ok"
    /\ task[2] \in LiveTask
    /\ \E c, d \in Clients :
        /\ conn[c].srv = 1
        /\ conn[d].srv = 2 /\ conn[d].st = "queued"

\* C12: in run_uds_server the removal of the old socket file is best
\* effort: setup never stops at remove_file, whatever it returned; with no
\* file at the path (NotFound) the bind decides alone, and when the
\* removal failed it is the bind that aborts setup.
C12_RemovalBestEffort ==
    kind = "uds" =>
        \A s \in Servers :
            /\ setupErr[s] # "remove"
            /\ (setupIn[s].remove = "absent" /\ ~setupIn[s].os)
               => task[s] \in (LiveTask \cup Ended \cup {"cancelled"})
            /\ setupIn[s].remove = "error"
               => (setupErr[s] = "bind" /\ task[s] = "aborted")
            /\ task[s] = "aborted" => setupErr[s] \in {"bind", "late"}

\* C12 witness: one setup found no file to remove and started, another
\* could not remove the file and was aborted by its bind
C12_Witness ==
    /\ kind = "uds"
    /\ \E s, u \in Servers :
        /\ setupIn[s].remove = "absent" /\ task[s] \in LiveTask
        /\ setupIn[u].remove = "error" /\ setupErr[u] = "bind"

\* on connection c the responses written so far answer, position by
\* position, the requests the client sent on c
AnswersInOrder(c) ==
    /\ Len(outbox[c]) <= Len(requests[c])
    /\ \A k \in DOMAIN outbox[c] : outbox[c][k] = handler[requests[c][k]]

\* the requests read on c are the first ones the client sent, in the order
\* sent, and each request read has its response written
ReadInOrder(c) ==
    /\ served[c] \o inbox[c] = requests[c]
    /\ Len(outbox[c]) = Len(served[c])

\* C13: on the TCP and local-socket servers the k-th response written on a
\* connection is the handler's response to the k-th request the client
\* received on that connection: requests are read in the order sent, every
\* request read is answered once, and responses are not reordered,
\* duplicated, dropped or delivered to another connection.
C13_ResponsesInRequestOrder ==
    kind \in HyperKinds =>
        \A c \in Clients : AnswersInOrder(c) /\ ReadInOrder(c)

\* C13 witness: a connection got two different responses to two different
\* requests while another connection was sent the requests in the other
\* order
C13_Witness ==
    /\ kind \in HyperKinds
    /\ \E c, d \in Clients :
        /\ c # d
        /\ Len(outbox[c]) = 2
        /\ outbox[c][1] # outbox[c][2]
        /\ requests[d] # <<>>
        /\ requests[d][1] # requests[c][1]

\* the connections accepted by a server whose Server Task the caller has
\* dropped: neither their state nor what was written to them changes
NoWorkAfterCancel ==
    \A c \in Clients :
        (IF conn[c].srv = 0 THEN FALSE ELSE task[conn[c].srv] = "cancelled")
        => (conn'[c] = conn[c] /\ outbox'[c] = outbox[c])

\* C14 as stated: the Server Task is cancelled as a unit: once the caller
\* has dropped it no per-connection work it started continues; no
\* handshake or response write of run_tls_tcp_server started before the
\* cancellation makes progress afterwards.
C14_CancelledAsUnit == [][NoWorkAfterCancel]_vars

\* a connection waiting in the listener's queue of a live server can be
\* accepted, whatever the connections accepted before it are doing
TlsAcceptNotDelayed ==
    \A s \in Servers :
        ( /\ task[s] \in LiveTask
          /\ runtimeUp[s]
          /\ listener[s] = "bound"
          /\ backlog[s] # <<>> )
        => ENABLED TlsAccept(s)

\* the handshake and the write of an accepted connection can take their
\* next step whatever the other connections are doing
TlsWorkNotDelayed ==
    \A c \in Clients :
        (conn[c].srv # 0 /\ runtimeUp[IF conn[c].srv = 0 THEN 1 ELSE conn[c].srv])
        => /\ conn[c].st = "Handshaking"
              => (ENABLED HandshakeOk(c) \/ ENABLED HandshakeFail(c))
           /\ conn[c].st = "Established" => ENABLED WriteBegin(c)
           /\ conn[c].st = "Dispatching" => ENABLED WriteFinish(c)

\* C15: in run_tls_tcp_server acceptance is decoupled from the work on
\* each connection: a connection whose handshake or write stays pending
\* delays neither the acceptance nor the handshake nor the response of a
\* connection that arrives later, so connections may complete in an order
\* other than the order of acceptance.
C15_AcceptanceDecoupled ==
    kind = "tls" => (TlsAcceptNotDelayed /\ TlsWorkNotDelayed)

\* C15 witness: the connection accepted first is still in its handshake
\* while the one accepted after it has its response and is closed
C15_Witness ==
    /\ kind = "tls"
    /\ conn[1].srv = 1 /\ conn[1].st = "Handshaking"
    /\ conn[2].srv = 1 /\ conn[2].st = "Closed"
    /\ outbox[2] = <<"HTTP/1.1 200 OK">>

\* who holds connection c: the listener's queue of a server, the Server
\* Task (its accept loop, which drives the connection inline on the TCP
\* and local-socket servers), or the task spawned for its handshake or
\* for its write
Holders(c) ==
    {<<"queue", s>> : s \in {u \in Servers :
                                \E k \in DOMAIN backlog[u] : backlog[u][k] = c}}
    \cup {<<"server", s>> : s \in {u \in Servers : cur[u] = c}}
    \cup (IF conn[c].st = "Handshaking" THEN {<<"handshake", c>>} ELSE {})
    \cup (IF conn[c].st \in {"Established", "Dispatching"}
          THEN {<<"write", c>>} ELSE {})

\* a connection in the state st is held by the holder that state calls for
RightHolder(c) ==
    /\ conn[c].st = "queued" => Holders(c) = {<<"queue", conn[c].srv>>}
    /\ conn[c].st \in {"connecting", "serving"}
       => Holders(c) = {<<"server", conn[c].srv>>}
    /\ conn[c].st \in {"idle", "refused", "Rejected", "Closed"}
       => Holders(c) = {}

\* the listener lives inside the Server Task and nowhere else: it is bound
\* only while that task is live, and a queue holds no socket twice
ListenerOwned ==
    \A s \in Servers :
        /\ listener[s] = "bound" => task[s] \in LiveTask
        /\ \A j, k \in DOMAIN backlog[s] :
               backlog[s][j] = backlog[s][k] => j = k

TrustStoreSetOnce ==
    \A s \in Servers :
        /\ trustStore'[s] # trustStore[s]
           => (task[s] = "none" /\ task'[s] = "held" /\ trustStore[s] = {})
        /\ task[s] # "none" => setupIn'[s] = setupIn[s]

\* the trust store of a mutual-auth server that started holds the
\* certificates of the chain it was given, all of them and no other
TrustStoreIsOwnChain ==
    \A s \in Servers :
        (kind = "mtls" /\ task[s] \notin {"none", "aborted"})
        => trustStore[s] = setupIn[s].chain

\* C17: the trust store of run_tls_tcp_server_with_mutual_auth is built
\* once, during setup and before any connection is accepted, and holds
\* exactly the certificates of the server's own chain; no accept,
\* handshake or write step changes the trust store or the identity.
C17_TrustStoreFixed ==
    []TrustStoreIsOwnChain /\ [][TrustStoreSetOnce]_vars

\* C17 witness: a server given a chain of two certificates has accepted
\* connections, one handshake passed and one failed, and its trust store
\* is still that chain
C17_Witness ==
    /\ kind = "mtls"
    /\ setupIn[1].chain = {1, 2}
    /\ trustStore[1] = {1, 2}
    /\ \E c, d \in Clients :
        /\ conn[c].srv = 1 /\ conn[c].hs = "ok"
        /\ conn[d].srv = 1 /\ conn[d].hs = "failed"

\* what has been written to a TLS connection: nothing, or the fixed text
\* once, and then only after a handshake that passed; no request is read
WrittenOnce(c) ==
    /\ outbox[c] \in {<<>>, <<"HTTP/1.1 200 OK">>}
    /\ outbox[c] # <<>> => (conn[c].hs = "ok" /\ conn[c].st = "Closed")
    /\ served[c] = <<>>
    /\ ( /\ conn[c].hs = "ok"
         /\ conn[c].st = "Closed"
         /\ fault[IF conn[c].srv = 0 THEN 1 ELSE conn[c].srv] = "none" )
       => outbox[c] # <<>>

\* the text is written by the step that ends the write task of an
\* established connection, and what the client sends writes nothing
WriteStep ==
    \A c \in Clients :
        /\ outbox'[c] # outbox[c]
           => /\ conn[c].st = "Dispatching" /\ conn[c].hs = "ok"
              /\ outbox[c] = <<>>
              /\ inbox'[c] = inbox[c]
        /\ inbox'[c] # inbox[c] => outbox'[c] = outbox[c]

\* C18: in run_tls_tcp_server every established connection gets the fixed
\* text "HTTP/1.1 200 OK" written once, right after the handshake and
\* without any request being read; there is no second write, whatever the
\* client sends.
C18_FixedTextOnce ==
    /\ [](kind = "tls" => \A c \in Clients : WrittenOnce(c))
    /\ [][kind = "tls" => WriteStep]_vars

\* C18 witness: a client got the text, its connection is closed, and the
\* request it sent was neither read nor answered
C18_Witness ==
    /\ kind = "tls"
    /\ \E c \in Clients :
        /\ conn[c].st = "Closed"
        /\ requests[c] # <<>>
        /\ inbox[c] = requests[c]
        /\ outbox[c] = <<"HTTP/1.1 200 OK">>

\* a later setup call removed the socket file server s had bound
Superseded(s) ==
    \E u \in Servers : u > s /\ task[u] # "none" /\ setupIn[u].remove = "ok"

\* a setup call that found a running server bound to the path removes the
\* file and, barring an OS error, binds; from then on the path does not
\* lead to the older server
LiveFileReplaced ==
    kind = "uds" =>
        \A s \in Servers :
            /\ (setupIn[s].live /\ setupIn[s].remove = "ok" /\ ~setupIn[s].os)
               => (setupErr[s] = "none" /\ task[s] # "aborted")
            /\ Superseded(s) => endpoint # s

\* the queue of a superseded server gets no new connection, and a client
\* that gets connected is connected to a server not superseded
OlderGetsNoMore ==
    kind = "uds" =>
        /\ \A s \in Servers :
               Superseded(s) => Len(backlog'[s]) <= Len(backlog[s])
        /\ \A c \in Clients :
               (conn[c].st = "idle" /\ conn'[c].st = "queued")
               => ~(\E u \in Servers :
                       /\ u > conn'[c].srv
                       /\ task[u] # "none"
                       /\ setupIn[u].remove = "ok")

\* C19: run_uds_server does not tell a stale socket file from a live one:
\* started on a path a running local-socket server is bound to, it removes
\* the file and binds; afterwards every new client reaches the newer
\* server only, and the older accept loop gets no further connection.
C19_LiveSocketReplaced ==
    []LiveFileReplaced /\ [][OlderGetsNoMore]_vars

\* C19 witness: two servers run on the same path, the older still bound
\* and serving the client that came first, the newer reached by the client
\* that came after it started
C19_Witness ==
    /\ kind = "uds"
    /\ task[1] = "running" /\ listener[1] = "bound"
    /\ task[2] \in LiveTask /\ setupIn[2].live
    /\ \E c, d \in Clients :
        /\ conn[c].srv = 1 /\ conn[c].st = "serving"
        /\ conn[d].srv = 2 /\ conn[d].st = "queued"

====
